---- MODULE Spec2Model ----
(***************************************************************************)
(* The request security pipeline of The Digital Ledger                     *)
(* (server/securityMiddleware.ts, printed in SECURITY.md, and the          *)
(* middleware order of server/index.ts, listed in SECURITY_FIXES.md).      *)
(*                                                                         *)
(* Strings that the code takes apart (origins, environment lists, paths)   *)
(* are sequences of tokens; a token stands for a run of characters that    *)
(* the code never splits.                                                  *)
(***************************************************************************)
EXTENDS Integers, Sequences, FiniteSets, Bags, TLC

VARIABLES
    nodeEnv,        \* process.env.NODE_ENV
    replitDomains,  \* process.env.REPLIT_DOMAINS  : [set, val]
    allowedEnv,     \* process.env.ALLOWED_ORIGINS : [set, val]
    now,            \* Date.now(), in ms
    store,          \* store[limiter][ip]: the limiter's record of a client
    win,            \* win[limiter][ip]: what happened in the window of the record
    arrivals,       \* requests received so far
    req,            \* the requests in flight, a bag
    users,          \* the users the storage holds, in the order they were created
    signIns,        \* the Google sign-ins: where each verify callback is
    wizard          \* the state of a SubscriberSignup component

vars == <<nodeEnv, replitDomains, allowedEnv, now, store, win, arrivals, req,
          users, signIns, wizard>>

(***************************************************************************)
(* Bounds of the model.                                                    *)
(***************************************************************************)
MaxInflight == 2
MaxTicks == 1
LoginArrivals == 7
BurstArrivals == 6
ClientArrivals == 3
OrderArrivals == 3
MaxOriginLen == 3
MaxEnvLen == 2
MaxStringLen == 4
MaxArrayLen == 2
MaxKeys == 2
MaxErrors == 2
ValidateArrivals == 2
MaxSignIns == 2
MaxEmailLen == 5
LoginsInflight == 6
InflightArrivals == 3
HeldLogins == 4

(***************************************************************************)
(* Strings.                                                                *)
(***************************************************************************)
\* String.prototype.includes
Includes(s, sub) ==
    \E i \in 1..(Len(s) - Len(sub) + 1) : SubSeq(s, i, i + Len(sub) - 1) = sub

\* String.prototype.split(sep), sep one token
RECURSIVE Split(_, _)
Split(s, sep) ==
    IF \A i \in 1..Len(s) : s[i] # sep
    THEN <<s>>
    ELSE LET k == CHOOSE i \in 1..Len(s) :
                      s[i] = sep /\ \A j \in 1..(i - 1) : s[j] # sep
         IN  <<SubSeq(s, 1, k - 1)>> \o Split(SubSeq(s, k + 1, Len(s)), sep)

\* no filter: the array as it is
FilterNothing(a) == a

\* Array.prototype.filter(Boolean) on an array of strings
RECURSIVE FilterBoolean(_)
FilterBoolean(a) ==
    IF a = <<>> THEN <<>>
    ELSE (IF Head(a) = <<>> THEN <<>> ELSE <<Head(a)>>) \o FilterBoolean(Tail(a))

Unset == [set |-> FALSE, val |-> <<>>]
EnvValue(v) == [set |-> TRUE, val |-> v]

LOCALHOST_5000 == <<"http://", "localhost", ":5000">>
LOCALHOST_5173 == <<"http://", "localhost", ":5173">>

\* process.env.X?.split(',') || []
SplitEnv(e) == IF e.set THEN Split(e.val, ",") ELSE <<>>

\* the allowedOrigins array of corsOptions.origin
AllowedOrigins(replit, allowed) ==
    FilterBoolean(SplitEnv(replit) \o SplitEnv(allowed)
                  \o <<LOCALHOST_5000, LOCALHOST_5173>>)

\* allowedOrigins.some(allowed => origin.includes(allowed))
SomeIncluded(list, origin) == \E i \in 1..Len(list) : Includes(origin, list[i])

\* corsOptions.origin without the early return for a request with no origin
OriginCallbackAlwaysChecked(env, replit, allowed, o) ==
    IF env = "production"
    THEN IF SomeIncluded(AllowedOrigins(replit, allowed), o.val) THEN "allow" ELSE "error"
    ELSE "allow"

\* corsOptions.origin with the strict check in both branches
OriginCallbackStrictEverywhere(env, replit, allowed, o) ==
    IF ~o.set \/ o.val = <<>> THEN "allow"
    ELSE IF SomeIncluded(AllowedOrigins(replit, allowed), o.val) THEN "allow" ELSE "error"

\* corsOptions.origin comparing the origin with the entries instead of searching it
OriginCallbackExact(env, replit, allowed, o) ==
    IF ~o.set \/ o.val = <<>> THEN "allow"
    ELSE LET allowedOrigins == AllowedOrigins(replit, allowed) IN
         IF env = "production"
         THEN IF \E i \in 1..Len(allowedOrigins) : allowedOrigins[i] = o.val
              THEN "allow" ELSE "error"
         ELSE "allow"

(***************************************************************************)
(* corsOptions.origin: "allow" for callback(null, true), "error" for       *)
(* callback(new Error('Not allowed by CORS')).  o is [set, val]: the       *)
(* Origin header, undefined when the request has none.                     *)
(***************************************************************************)
OriginCallback(env, replit, allowed, o) ==
    IF ~o.set \/ o.val = <<>> THEN "allow"
    ELSE LET allowedOrigins == AllowedOrigins(replit, allowed) IN
         IF env = "production"
         THEN IF SomeIncluded(allowedOrigins, o.val) THEN "allow" ELSE "error"
         ELSE IF Includes(o.val, <<"localhost">>) \/ SomeIncluded(allowedOrigins, o.val)
              THEN "allow"
              ELSE "allow"

(***************************************************************************)
(* setupErrorHandler.  An error is [status, message, stack]: status 0 is   *)
(* an error without a status, stack FALSE an error without a stack.        *)
(***************************************************************************)
TooManyMessage == "Too many requests, please try again later."
GenericMessage == "An error occurred. Please try again later."
StackText == "Error\n    at <anonymous>"

NoError == [set |-> FALSE, status |-> 0, message |-> "", stack |-> FALSE]
Error(status, message, stack) ==
    [set |-> TRUE, status |-> status, message |-> message, stack |-> stack]

\* 500 whatever the error
StatusAlways500(err) == 500

\* err.status || 500
StatusOr500(err) == IF err.status = 0 THEN 500 ELSE err.status

NoFields == [f \in {} |-> ""]

\* the error handler with the detailed branch taken in every mode
ErrorResponseDetailed(env, err) ==
    [status |-> IF err.status = 0 THEN 500 ELSE err.status,
     json   |-> ("message" :> (IF err.message = "" THEN "Internal server error"
                                                    ELSE err.message))
                @@ (IF err.stack THEN "stack" :> "Error\n    at <anonymous>"
                                 ELSE [f \in {} |-> ""])]

\* the (status, JSON body) that the error-handling middleware sends
ErrorResponse(env, err) ==
    IF env = "production"
    THEN IF err.status = 429
         THEN [status |-> 429, json |-> ("message" :> TooManyMessage)]
         ELSE [status |-> StatusOr500(err), json |-> ("message" :> GenericMessage)]
    ELSE [status |-> StatusOr500(err),
          json   |-> ("message" :> (IF err.message = "" THEN "Internal server error"
                                                         ELSE err.message))
                     @@ (IF err.stack THEN "stack" :> StackText ELSE NoFields)]

(***************************************************************************)
(* setupRateLimiting: four express-rate-limit limiters (memory store,      *)
(* keyed by req.ip), mounted in this order.                                *)
(***************************************************************************)
Limiters == {"api", "auth", "register", "passwordChange"}

WindowMs(l) ==
    CASE l = "api"            -> 15 * 60 * 1000
      [] l = "auth"           -> 15 * 60 * 1000
      [] l = "register"       -> 60 * 60 * 1000
      [] l = "passwordChange" -> 15 * 60 * 1000

Max(l) ==
    CASE l = "api"            -> 1000
      [] l = "auth"           -> 5
      [] l = "register"       -> 3
      [] l = "passwordChange" -> 5

LimitMessage(l) ==
    CASE l = "api"            -> "Too many requests from this IP, please try again later."
      [] l = "auth"           -> "Too many login attempts from this IP, please try again after 15 minutes."
      [] l = "register"       -> "Too many accounts created from this IP, please try again after an hour."
      [] l = "passwordChange" -> "Too many password change attempts, please try again later."

SkipSuccessfulRequests(l) == l = "auth"

\* skip: (req) => req.path === '/health' || req.path === '/api/health';
\* inside a mounted middleware req.path is the path below the mount point
Skip(l, relPath) ==
    l = "api" /\ (relPath = <<"health">> \/ relPath = <<"api", "health">>)

\* the limiters of the routes applied before the general one
LimiterOrderRouteFirst ==
    << [mount |-> <<"api", "auth", "login">>,           name |-> "auth"],
       [mount |-> <<"api", "auth", "register">>,        name |-> "register"],
       [mount |-> <<"api", "auth", "change-password">>, name |-> "passwordChange"],
       [mount |-> <<"api">>,                            name |-> "api"] >>

\* app.use(mount, limiter), in the order of the calls
LimiterOrder ==
    << [mount |-> <<"api">>,                            name |-> "api"],
       [mount |-> <<"api", "auth", "login">>,           name |-> "auth"],
       [mount |-> <<"api", "auth", "register">>,        name |-> "register"],
       [mount |-> <<"api", "auth", "change-password">>, name |-> "passwordChange"] >>

IsPrefix(p, s) == Len(p) <= Len(s) /\ SubSeq(s, 1, Len(p)) = p
RelPath(mount, path) == SubSeq(path, Len(mount) + 1, Len(path))

\* the first limiter after position i whose mount point matches, 0 if none
NextLimiter(path, i) ==
    LET later == {j \in (i + 1)..Len(LimiterOrder) : IsPrefix(LimiterOrder[j].mount, path)}
    IN  IF later = {} THEN 0 ELSE CHOOSE j \in later : \A k \in later : j <= k

\* A record of the memory store; resetTime -1: the store has no record.
NoRecord == [totalHits |-> 0, resetTime |-> -1]

\* MemoryStore.getClient: a missing record is created with a window from now
GetClient(rec, l, t) ==
    IF rec.resetTime = -1 THEN [totalHits |-> 0, resetTime |-> t + WindowMs(l)] ELSE rec

\* the window of the record is over (or there is no record)
Expired(rec, t) == rec.resetTime <= t

\* a store that never starts a new window for a record it has
IncrementNoReset(rec, l, t) ==
    [GetClient(rec, l, t) EXCEPT !.totalHits = @ + 1]

\* a store that begins a new window with every hit
IncrementSliding(rec, l, t) ==
    [totalHits |-> GetClient(rec, l, t).totalHits + 1, resetTime |-> t + WindowMs(l)]

\* MemoryStore.increment: reset a record whose window is over, then count
Increment(rec, l, t) ==
    LET client == GetClient(rec, l, t)
        live   == IF client.resetTime <= t
                  THEN [totalHits |-> 0, resetTime |-> t + WindowMs(l)]
                  ELSE client
    IN  [live EXCEPT !.totalHits = @ + 1]

\* a store that takes no hit back
DecrementNothing(rec, l, t) == rec

\* MemoryStore.decrement
Decrement(rec, l, t) ==
    LET client == GetClient(rec, l, t)
    IN  IF client.totalHits > 0 THEN [client EXCEPT !.totalHits = @ - 1] ELSE client

\* one key for every client
KeyGeneratorShared(r) == "10.0.0.1"

\* the key of a request in the stores: its IP address
KeyGenerator(r) == r.ip

\* a limiter that lets one request more through
OverLimitByTwo(l, totalHits) == totalHits > Max(l) + 1

\* the limiter's decision on the count its own increment returned
OverLimit(l, totalHits) == totalHits > Max(l)

\* requestWasSuccessful: response.statusCode < 400
RequestWasSuccessful(status) == status < 400

(***************************************************************************)
(* sanitizeInput.  A JSON value is a record with its type; a string holds  *)
(* its text as tokens, an array its items, an object its own enumerable    *)
(* keys in property order and their values.                                *)
(***************************************************************************)
Str(s) == [type |-> "string", val |-> s]
Number == [type |-> "number"]
Null == [type |-> "null"]
Arr(items) == [type |-> "array", items |-> items]
Obj(keys, vals) == [type |-> "object", keys |-> keys, vals |-> vals]
EmptyObject == Obj(<<>>, <<>>)

\* the tokens that consist of word characters (\w) only
WordTokens == {"java", "on", "safe", "hello"}

\* .replace(/<script\b[^<]*(?:(?!<\/script>)<[^<]*)*<\/script>/gi, ''): a span runs
\* from an opening tag to the first closing tag after it; the search goes on
\* behind the span
RECURSIVE RemoveScripts(_)
RemoveScripts(s) ==
    IF s = <<>> THEN <<>>
    ELSE LET closing == {j \in 2..Len(s) : s[j] = "</script>"} IN
         IF Head(s) = "<script>" /\ closing # {}
         THEN LET j == CHOOSE x \in closing : \A y \in closing : x <= y
              IN  RemoveScripts(SubSeq(s, j + 1, Len(s)))
         ELSE <<Head(s)>> \o RemoveScripts(Tail(s))

\* .replace(/javascript:/gi, '')
RECURSIVE RemoveJavascript(_)
RemoveJavascript(s) ==
    IF s = <<>> THEN <<>>
    ELSE IF Len(s) >= 2 /\ s[1] = "java" /\ s[2] = "script:"
         THEN RemoveJavascript(SubSeq(s, 3, Len(s)))
         ELSE <<Head(s)>> \o RemoveJavascript(Tail(s))

\* the number of tokens of word characters at the front of s
RECURSIVE WordRun(_)
WordRun(s) ==
    IF s # <<>> /\ Head(s) \in WordTokens THEN 1 + WordRun(Tail(s)) ELSE 0

\* .replace(/on\w+\s*=/gi, ''): "on", the longest run of word characters, "="
RECURSIVE RemoveHandlers(_)
RemoveHandlers(s) ==
    IF s = <<>> THEN <<>>
    ELSE LET k == WordRun(Tail(s)) IN
         IF Head(s) = "on" /\ Len(s) >= k + 2 /\ s[k + 2] = "click="
         THEN RemoveHandlers(SubSeq(s, k + 3, Len(s)))
         ELSE <<Head(s)>> \o RemoveHandlers(Tail(s))

\* sanitizeString: the three replacements, in this order, one pass each
SanitizeString(s) == RemoveHandlers(RemoveJavascript(RemoveScripts(s)))

\* sanitizeObject.  A value that is no object (typeof obj !== 'object') or is
\* null is returned as it is, so a string that is an item of an array stays;
\* of an object every key is assigned to a new object, the strings
\* sanitized, the objects, arrays and null through sanitizeObject.  The
\* assignment sanitized['__proto__'] = v sets no own property.
RECURSIVE SanitizeObject(_)
RECURSIVE SanitizeFields(_, _)
SanitizeObject(obj) ==
    IF obj.type \notin {"object", "array"} THEN obj
    ELSE IF obj.type = "array"
         THEN Arr([i \in 1..Len(obj.items) |-> SanitizeObject(obj.items[i])])
         ELSE SanitizeFields(obj, 1)

\* the loop for (const key in obj), from the i-th key on
SanitizeFields(obj, i) ==
    IF i > Len(obj.keys) THEN EmptyObject
    ELSE LET v    == obj.vals[i]
             w    == IF v.type = "string" THEN Str(SanitizeString(v.val))
                     ELSE IF v.type \in {"object", "array", "null"} THEN SanitizeObject(v)
                     ELSE v
             rest == SanitizeFields(obj, i + 1)
         IN  IF obj.keys[i] = "__proto__" THEN rest
             ELSE Obj(<<obj.keys[i]>> \o rest.keys, <<w>> \o rest.vals)

(***************************************************************************)
(* server/index.ts: the order in which the middleware is applied.  The     *)
(* error handler is registered after the routes and runs only for a        *)
(* request that some stage passed an error to.                             *)
(***************************************************************************)
\* the sanitizer applied before the limiters
PipelineOrderSanitizeFirst ==
    <<"size", "cors", "helmet", "redirect", "sanitize", "limit", "handler">>

\* origin validation applied before the body parsers
PipelineOrderCorsFirst ==
    <<"cors", "size", "helmet", "redirect", "limit", "sanitize", "handler">>

\* the limiters applied before the HTTPS redirect
PipelineOrderLimitersEarly ==
    <<"size", "cors", "helmet", "limit", "redirect", "sanitize", "handler">>

PipelineOrder ==
    <<"size", "cors", "helmet", "redirect", "limit", "sanitize", "handler">>

StageIndex(stage) == CHOOSE i \in 1..Len(PipelineOrder) : PipelineOrder[i] = stage

\* where next() of a stage leads
After(stage) ==
    IF StageIndex(stage) < Len(PipelineOrder)
    THEN PipelineOrder[StageIndex(stage) + 1]
    ELSE "end"

\* entering the rate-limiting stage: the first limiter mounted on the path
EnterStage(r, stage) ==
    IF stage = "limit"
    THEN IF NextLimiter(r.path, 0) = 0
         THEN [r EXCEPT !.pc = After("limit")]
         ELSE [r EXCEPT !.pc = "limit", !.li = NextLimiter(r.path, 0)]
    ELSE [r EXCEPT !.pc = stage]

\* next() called by the middleware of a stage
CallNext(r, stage) == EnterStage(r, After(stage))

\* next(err): Express skips to the error-handling middleware
CallNextError(r, err) == [r EXCEPT !.pc = "error", !.err = err]

\* the middleware of a stage starts to run on the request
Visit(r, stage) == [r EXCEPT !.trail = Append(@, stage)]

\* a response is written: status, body
Send(r, status, kind, json, text) ==
    [r EXCEPT !.pc = "sent", !.status = status, !.kind = kind, !.json = json,
              !.text = text, !.responses = @ + 1]

(***************************************************************************)
(* A request in flight.  counted lists the limiters that counted the       *)
(* request and hits the count each of them returned (req.rateLimit.used);  *)
(* resetTime is req.rateLimit.resetTime, the window the last of them       *)
(* returned, and fresh whether that limiter began a new window with the    *)
(* request;                                                                *)
(* listeners are the limiters that listen for the response's finish;       *)
(* trail lists the middleware that has run on the request, in order; body, *)
(* query and params are req.body, req.query and req.params, and received   *)
(* what they were when the request came in.                                *)
(***************************************************************************)
\* errors is what validationResult(req) holds, validated whether
\* checkValidation has passed the request on, and errorsSent the errors field
\* of the response body; host is the Host header and location the Location
\* header of the response
Blank ==
    [pc |-> "free", ip |-> "", method |-> "", path |-> <<>>, origin |-> Unset,
     proto |-> "", ctype |-> "", tooLarge |-> FALSE,
     li |-> 0, hits |-> <<>>, resetTime |-> -1, fresh |-> FALSE, counted |-> <<>>,
     listeners |-> {},
     err |-> NoError, status |-> 0, kind |-> "none", json |-> NoFields, text |-> "",
     headers |-> {}, acao |-> Unset, sanitized |-> FALSE, ranHandler |-> FALSE,
     body |-> EmptyObject, query |-> EmptyObject, params |-> EmptyObject,
     received |-> [body |-> EmptyObject, query |-> EmptyObject, params |-> EmptyObject],
     errors |-> <<>>, validated |-> FALSE, errorsSent |-> <<>>,
     host |-> "", location |-> <<>>,
     responses |-> 0, trail |-> <<>>]

NewRequest(ip, method, path, origin, proto, ctype, tooLarge) ==
    [Blank EXCEPT !.pc = PipelineOrder[1], !.ip = ip, !.method = method, !.path = path,
                 !.origin = origin, !.proto = proto, !.ctype = ctype,
                 !.tooLarge = tooLarge, !.host = "ledger.example"]

IPs == {"10.0.0.1", "10.0.0.2"}

EmptyStore == [l \in Limiters |-> [ip \in IPs |-> NoRecord]]
\* Of the requests a limiter counted in the window of a record: how many there
\* were, how many the limiter passed on, and how many of those it listens to
\* have been answered with and without success.
NoWindow == [received |-> 0, forwarded |-> 0, succeeded |-> 0, failed |-> 0]
NoWindows == [l \in Limiters |-> [ip \in IPs |-> NoWindow]]

(***************************************************************************)
(* The synchronous middleware, each as the change it makes to the request  *)
(* and its response.                                                       *)
(***************************************************************************)
\* setupRequestSizeLimits: express.json and express.urlencoded, limit '10mb';
\* a body of their type over the limit is a 413 error passed to next
SizeLimit(r0) ==
    LET r == Visit(r0, "size") IN
    IF r.ctype \in {"json", "urlencoded"} /\ r.tooLarge
    THEN CallNextError(r, Error(413, "request entity too large", TRUE))
    ELSE CallNext(r, "size")

ProtectiveHeaders ==
    {"Content-Security-Policy", "Strict-Transport-Security", "X-Content-Type-Options",
     "X-XSS-Protection", "Referrer-Policy"}

\* cors answering every allowed request with Access-Control-Allow-Origin: *
CorsWildcard(r0) ==
    LET r == Visit(r0, "cors")
        decision == OriginCallback(nodeEnv, replitDomains, allowedEnv, r.origin)
        allowed == [r EXCEPT !.headers = @ \cup {"Access-Control-Allow-Credentials",
                                                  "Access-Control-Allow-Origin"},
                             !.acao = EnvValue(<<"*">>)]
    IN  IF decision = "error"
        THEN CallNextError(r, Error(0, "Not allowed by CORS", TRUE))
        ELSE IF r.method = "OPTIONS"
             THEN Send(allowed, 204, "empty", NoFields, "")
             ELSE CallNext(allowed, "cors")

\* cors(corsOptions): the origin callback decides; an allowed request gets the
\* CORS headers (the request's origin reflected), and a preflight is answered here
Cors(r0) ==
    LET r == Visit(r0, "cors")
        decision == OriginCallback(nodeEnv, replitDomains, allowedEnv, r.origin)
        hdrs == r.headers \cup {"Access-Control-Allow-Credentials", "Vary"}
                  \cup (IF r.origin.set THEN {"Access-Control-Allow-Origin"} ELSE {})
        allowed == [r EXCEPT !.headers = hdrs,
                             !.acao = IF r.origin.set THEN r.origin ELSE Unset]
    IN  IF decision = "error"
        THEN CallNextError(r, Error(0, "Not allowed by CORS", TRUE))
        ELSE IF r.method = "OPTIONS"
             THEN Send(allowed, 204, "empty", NoFields, "")
             ELSE CallNext(allowed, "cors")

\* helmet(...): sets the protective headers and calls next
Helmet(r0) ==
    LET r == Visit(r0, "helmet")
    IN  CallNext([r EXCEPT !.headers = @ \cup ProtectiveHeaders], "helmet")

\* `https://${req.headers.host}${req.url}`
HttpsUrl(r) == <<"https://", r.host>> \o r.path

\* httpsRedirect without the test of the mode
HttpsRedirectEverywhere(r0) ==
    LET r == Visit(r0, "redirect") IN
    IF r.proto # "https"
    THEN Send([r EXCEPT !.location = HttpsUrl(r)], 301, "redirect", NoFields, "")
    ELSE CallNext(r, "redirect")

\* httpsRedirect; proto is the x-forwarded-proto header, "" when there is none
HttpsRedirect(r0) ==
    LET r == Visit(r0, "redirect") IN
    IF nodeEnv = "production" /\ r.proto # "https"
    THEN Send([r EXCEPT !.location = HttpsUrl(r)], 301, "redirect", NoFields, "")
    ELSE CallNext(r, "redirect")

\* sanitizeInput: rewrites body, query and params, then next()
SanitizeInput(r0) ==
    LET r == Visit(r0, "sanitize")
    IN  CallNext([r EXCEPT !.sanitized = TRUE,
                           !.body = SanitizeObject(@),
                           !.query = SanitizeObject(@),
                           !.params = SanitizeObject(@)], "sanitize")

\* an error handler that writes a second response
ErrorHandlerTwice(r0) ==
    LET r == Visit(r0, "error")
        out == ErrorResponse(nodeEnv, r.err)
    IN  Send(Send(r, out.status, "json", out.json, ""), out.status, "json", out.json, "")

\* the middleware of setupErrorHandler
ErrorHandler(r0) ==
    LET r == Visit(r0, "error")
        out == ErrorResponse(nodeEnv, r.err)
    IN  Send(r, out.status, "json", out.json, "")

SyncStages == {"size", "cors", "helmet", "redirect", "sanitize", "error"}

\* Express calls synchronous middleware one after the other in one turn of the
\* event loop: the request runs on to its next asynchronous stage
RECURSIVE Run(_)
Run(r) ==
    CASE r.pc = "size"     -> Run(SizeLimit(r))
      [] r.pc = "cors"     -> Run(Cors(r))
      [] r.pc = "helmet"   -> Run(Helmet(r))
      [] r.pc = "redirect" -> Run(HttpsRedirect(r))
      [] r.pc = "sanitize" -> Run(SanitizeInput(r))
      [] r.pc = "error"    -> Run(ErrorHandler(r))
      [] OTHER             -> r

(***************************************************************************)
(* The steps at which requests interleave.                                 *)
(***************************************************************************)
One(r) == SetToBag({r})

\* the requests in flight with r replaced by q
Replace(r, q) == (req (-) One(r)) (+) One(q)

\* a request has arrived and the body parsers have read it: the middleware
\* before the limiters runs; at most cap requests are in flight
ReceiveUpTo(r, cap) ==
    /\ BagCardinality(req) < cap
    /\ arrivals' = arrivals + 1
    /\ req' = req (+) One(Run(r))
    /\ UNCHANGED <<users, signIns, wizard, nodeEnv, replitDomains, allowedEnv, now, store, win>>

ReceiveRequest(r) == ReceiveUpTo(r, MaxInflight)

Receive(ip, method, path, origin, proto, ctype, tooLarge) ==
    ReceiveRequest(NewRequest(ip, method, path, origin, proto, ctype, tooLarge))

\* a request with a parsed JSON body and a parsed query string
WithInput(r, body, query) ==
    [r EXCEPT !.body = body, !.query = query,
              !.received = [body |-> body, query |-> query, params |-> r.params]]

\* one limiter of setupRateLimiting on a request that reached it
RateLimit(r0) ==
    LET r    == Visit(r0, "limit")
        L    == LimiterOrder[r.li]
        l    == L.name
        ip   == KeyGenerator(r)
        old  == store[l][ip]
        rec  == Increment(old, l, now)
        r1   == [r EXCEPT !.hits = Append(@, rec.totalHits),
                          !.resetTime = rec.resetTime,
                          !.fresh = Expired(old, now),
                          !.counted = Append(@, l),
                          !.listeners = IF SkipSuccessfulRequests(l) THEN @ \cup {l} ELSE @]
        nxt  == NextLimiter(r.path, r.li)
        on(q) == IF nxt = 0 THEN CallNext(q, "limit") ELSE [q EXCEPT !.li = nxt]
    IN
    /\ r0.pc = "limit"
    /\ IF Skip(l, RelPath(L.mount, r.path))
       THEN /\ req' = Replace(r0, Run(on(r)))
            /\ UNCHANGED <<store, win>>
       ELSE /\ store' = [store EXCEPT ![l][ip] = rec]
            /\ win' = [win EXCEPT ![l][ip] =
                         LET w == IF Expired(old, now) THEN NoWindow ELSE @
                         IN  [w EXCEPT !.received = @ + 1,
                                       !.forwarded = @ + (IF OverLimit(l, rec.totalHits)
                                                          THEN 0 ELSE 1)]]
            /\ req' = Replace(r0, IF OverLimit(l, rec.totalHits)
                                  THEN Send(r1, 429, "text", NoFields, LimitMessage(l))
                                  ELSE Run(on(r1)))
    /\ UNCHANGED <<users, signIns, wizard, nodeEnv, replitDomains, allowedEnv, now, arrivals>>

\* the application handler: answers with a status of its own, or throws
Handler(r0, outcome) ==
    LET r == Visit(r0, "handler")
        ran == [r EXCEPT !.ranHandler = TRUE]
    IN
    /\ r0.pc = "handler"
    /\ req' = Replace(r0, IF outcome.throws
                          THEN Run(CallNextError(ran, outcome.err))
                          ELSE Send(ran, outcome.status, "json", outcome.json, ""))
    /\ UNCHANGED <<users, signIns, wizard, nodeEnv, replitDomains, allowedEnv, now, store, win, arrivals>>

\* checkValidation that reports the first error only
CheckValidationFirstOnly(r) ==
    IF r.errors # <<>>
    THEN Send([r EXCEPT !.errorsSent = <<r.errors[1]>>], 400, "json",
              ("message" :> "Validation failed" @@ "errors" :> "errors.array()"), "")
    ELSE [r EXCEPT !.validated = TRUE]

\* checkValidation on a request whose validation result is r.errors: 400 with
\* the errors, or next()
CheckValidation(r) ==
    IF r.errors # <<>>
    THEN Send([r EXCEPT !.errorsSent = r.errors], 400, "json",
              ("message" :> "Validation failed" @@ "errors" :> "errors.array()"), "")
    ELSE [r EXCEPT !.validated = TRUE]

\* a route with validation: its validation chains have run on the request and
\* left errs, and checkValidation runs
Validate(r0, errs) ==
    LET r == Visit([r0 EXCEPT !.errors = errs], "checkValidation")
    IN
    /\ r0.pc = "handler" /\ ~r0.validated
    /\ req' = Replace(r0, CheckValidation(r))
    /\ UNCHANGED <<users, signIns, wizard, nodeEnv, replitDomains, allowedEnv, now, store, win, arrivals>>

\* the decrements of the 'finish' listeners of the limiters in ls, one by one
RECURSIVE DecrementAll(_, _, _, _)
DecrementAll(st, ls, ip, t) ==
    IF ls = {} THEN st
    ELSE LET l == CHOOSE x \in ls : TRUE
         IN  DecrementAll([st EXCEPT ![l][ip] = Decrement(st[l][ip], l, t)],
                          ls \ {l}, ip, t)

\* the response's 'finish' event: a limiter with skipSuccessfulRequests takes
\* back the hit of a request that was answered successfully
Finish(r) ==
    LET ok == RequestWasSuccessful(r.status)
        ls == IF ok THEN r.listeners ELSE {}
        key == KeyGenerator(r)
    IN
    /\ r.pc = "sent"
    /\ store' = DecrementAll(store, ls, key, now)
    /\ win' = [l \in Limiters |-> [ip \in IPs |->
                 IF l \notin r.listeners \/ ip # key THEN win[l][ip]
                 ELSE IF store[l][ip].resetTime = -1 THEN NoWindow
                 ELSE IF store[l][ip].resetTime # r.resetTime THEN win[l][ip]
                 ELSE IF ok THEN [win[l][ip] EXCEPT !.succeeded = @ + 1]
                 ELSE [win[l][ip] EXCEPT !.failed = @ + 1]]]
    /\ req' = req (-) One(r)
    /\ UNCHANGED <<users, signIns, wizard, nodeEnv, replitDomains, allowedEnv, now, arrivals>>

TickMs == 15 * 60 * 1000

\* time passes: a quarter of an hour, or an hour
Tick(d) ==
    /\ now < MaxTicks * TickMs
    /\ now' = now + d
    /\ UNCHANGED <<users, signIns, wizard, nodeEnv, replitDomains, allowedEnv, store, win, arrivals, req>>

\* MemoryStore.clearExpired, every windowMs: a record that was not used since
\* the sweep before is dropped; the window of such a record is over
ClearExpired(l, ip) ==
    /\ store[l][ip].resetTime # -1
    /\ store[l][ip].resetTime <= now
    /\ store' = [store EXCEPT ![l][ip] = NoRecord]
    /\ win' = [win EXCEPT ![l][ip] = NoWindow]
    /\ UNCHANGED <<users, signIns, wizard, nodeEnv, replitDomains, allowedEnv, now, arrivals, req>>

(***************************************************************************)
(* setupGoogleAuth: the verify callback of the GoogleStrategy.  The        *)
(* callback is async: every call of the storage is awaited, and between    *)
(* the calls other callbacks run.  The storage is the capability the       *)
(* specification names: lookup by Google id and by email, create, update.  *)
(***************************************************************************)
Absent == [set |-> FALSE, val |-> ""]
Present(v) == [set |-> TRUE, val |-> v]

NoUser == [id |-> 0, googleId |-> Absent, email |-> Absent, authProvider |-> "", via |-> 0]

\* the first of the users found (a set of positions in us), NoUser when
\* none was found
FirstUser(us, found) ==
    IF found = {} THEN NoUser ELSE us[CHOOSE i \in found : \A j \in found : i <= j]

\* storage.getUserByGoogleId, storage.getUserByEmail
GetUserByGoogleId(us, id) ==
    FirstUser(us, {i \in 1..Len(us) : us[i].googleId = Present(id)})
GetUserByEmail(us, email) ==
    FirstUser(us, {i \in 1..Len(us) : us[i].email = Present(email)})

\* storage.createUser: a new user with the next id; via is the sign-in that
\* created the user
CreateUser(us, googleId, email, via) ==
    Append(us, [id |-> Len(us) + 1, googleId |-> Present(googleId), email |-> email,
                authProvider |-> "google", via |-> via])

\* storage.updateUser(user.id, {googleId, authProvider: "google", ...})
UpdateUser(us, id, googleId) ==
    [i \in 1..Len(us) |->
        IF us[i].id = id
        THEN [us[i] EXCEPT !.googleId = Present(googleId), !.authProvider = "google"]
        ELSE us[i]]

\* String.prototype.toLowerCase on the addresses of the model
ToLowerCase(s) == IF s = "Ann@x.io" THEN "ann@x.io" ELSE s

\* email?.toLowerCase()
LowerEmail(email) == IF email.set THEN Present(ToLowerCase(email.val)) ELSE Absent

SignInIds == 1..MaxSignIns
Idle == [pc |-> "idle", profile |-> [id |-> "", email |-> Absent], user |-> NoUser,
         created |-> 0]
NoSignIns == [p \in SignInIds |-> Idle]

\* passport calls the callback with the profile; storage.getUserByGoogleId
\* answers: a user found is handed to done, else the search goes on by email
\* (when the profile has one) or a user is created
ByGoogleId(p, profile) ==
    LET user == GetUserByGoogleId(users, profile.id) IN
    /\ signIns[p].pc = "idle"
    /\ signIns' = [signIns EXCEPT ![p] =
          [@ EXCEPT !.profile = profile,
                    !.user = user,
                    !.pc = IF user # NoUser THEN "done"
                           ELSE IF profile.email.set /\ profile.email.val # ""
                                THEN "byEmail" ELSE "create"]]
    /\ UNCHANGED <<users, wizard, nodeEnv, replitDomains, allowedEnv, now, store, win,
                   arrivals, req>>

\* storage.getUserByEmail(email.toLowerCase()) answers: a user found is to be
\* linked to the Google account
ByEmail(p) ==
    LET user == GetUserByEmail(users, ToLowerCase(signIns[p].profile.email.val)) IN
    /\ signIns[p].pc = "byEmail"
    /\ signIns' = [signIns EXCEPT ![p] =
          [@ EXCEPT !.user = user, !.pc = IF user # NoUser THEN "update" ELSE "create"]]
    /\ UNCHANGED <<users, wizard, nodeEnv, replitDomains, allowedEnv, now, store, win,
                   arrivals, req>>

\* storage.updateUser answers, and the updated user is handed to done
LinkAccount(p) ==
    LET s == signIns[p]
        updated == UpdateUser(users, s.user.id, s.profile.id)
        found == {i \in 1..Len(updated) : updated[i].id = s.user.id}
    IN
    /\ s.pc = "update"
    /\ users' = updated
    /\ signIns' = [signIns EXCEPT ![p] =
          [@ EXCEPT !.user = FirstUser(updated, found), !.pc = "done"]]
    /\ UNCHANGED <<wizard, nodeEnv, replitDomains, allowedEnv, now, store, win,
                   arrivals, req>>

\* storage.createUser answers with the new user, or rejects and the catch
\* block hands the error to done
CreateNewUser(p, ok) ==
    LET s == signIns[p]
        grown == CreateUser(users, s.profile.id, LowerEmail(s.profile.email), p)
    IN
    /\ s.pc = "create"
    /\ IF ok
       THEN /\ users' = grown
            /\ signIns' = [signIns EXCEPT ![p] =
                  [@ EXCEPT !.user = grown[Len(grown)], !.created = @ + 1,
                            !.pc = IF grown[Len(grown)].email.set
                                      /\ grown[Len(grown)].email.val # ""
                                   THEN "welcome" ELSE "done"]]
       ELSE /\ users' = users
            /\ signIns' = [signIns EXCEPT ![p] = [@ EXCEPT !.pc = "failed"]]
    /\ UNCHANGED <<wizard, nodeEnv, replitDomains, allowedEnv, now, store, win,
                   arrivals, req>>

\* sendWelcomeEmail answers or throws (the inner catch logs it): the new user
\* is handed to done
WelcomeEmail(p) ==
    /\ signIns[p].pc = "welcome"
    /\ signIns' = [signIns EXCEPT ![p] = [@ EXCEPT !.pc = "done"]]
    /\ UNCHANGED <<users, wizard, nodeEnv, replitDomains, allowedEnv, now, store, win,
                   arrivals, req>>

(***************************************************************************)
(* SubscriberSignup: the component's state (step, data, emailError) and    *)
(* the status of subscribeMutation.  An address is a sequence of           *)
(* characters: "x" stands for any character that is neither white space,   *)
(* nor @, nor a dot.  A handler can run only while the element that        *)
(* carries it is rendered.                                                 *)
(***************************************************************************)
FirstStep ==
    [step |-> 1,
     data |-> [email |-> <<>>, categories |-> {}, frequency |-> "weekly"],
     emailError |-> "",
     status |-> "idle"]

\* /^[^\s@]+@[^\s@]+\.[^\s@]+$/.test(email)
EmailRegex(email) ==
    \E i, j \in 1..Len(email) :
        /\ 1 < i /\ i + 1 < j /\ j < Len(email)
        /\ email[i] = "@" /\ email[j] = "."
        /\ \A k \in 1..Len(email) : k # i => email[k] \notin {" ", "@"}

\* validateEmail: the error it sets, "" when the address is valid
ValidateEmail(email) ==
    IF email = <<>> THEN "Email is required"
    ELSE IF ~EmailRegex(email) THEN "Please enter a valid email address"
    ELSE ""

FrequencyOptions == {"daily", "weekly", "bi-weekly", "monthly"}

\* onChange of the address input (step 1)
ChangeEmail(v) ==
    /\ wizard.step = 1
    /\ wizard' = [wizard EXCEPT !.data.email = v,
                                !.emailError = IF @ # "" THEN ValidateEmail(v) ELSE @]
    /\ UNCHANGED <<users, signIns, nodeEnv, replitDomains, allowedEnv, now, store, win,
                   arrivals, req>>

\* handleNext (the Next buttons of steps 1 and 2)
HandleNext ==
    /\ wizard.step \in {1, 2}
    /\ wizard' =
          IF wizard.step = 1 /\ ValidateEmail(wizard.data.email) # ""
          THEN [wizard EXCEPT !.emailError = ValidateEmail(wizard.data.email)]
          ELSE [wizard EXCEPT !.emailError = IF wizard.step = 1 THEN "" ELSE @,
                              !.step = IF @ + 1 < 3 THEN @ + 1 ELSE 3]
    /\ UNCHANGED <<users, signIns, nodeEnv, replitDomains, allowedEnv, now, store, win,
                   arrivals, req>>

\* handleBack (the Back buttons of steps 2 and 3)
HandleBack ==
    /\ wizard.step \in {2, 3}
    /\ wizard' = [wizard EXCEPT !.step = IF @ - 1 > 1 THEN @ - 1 ELSE 1]
    /\ UNCHANGED <<users, signIns, nodeEnv, replitDomains, allowedEnv, now, store, win,
                   arrivals, req>>

\* toggleCategory (step 2)
ToggleCategory(c) ==
    /\ wizard.step = 2
    /\ wizard' = [wizard EXCEPT !.data.categories = IF c \in @ THEN @ \ {c} ELSE @ \cup {c}]
    /\ UNCHANGED <<users, signIns, nodeEnv, replitDomains, allowedEnv, now, store, win,
                   arrivals, req>>

\* a frequency is chosen (step 3)
SetFrequency(f) ==
    /\ wizard.step = 3
    /\ wizard' = [wizard EXCEPT !.data.frequency = f]
    /\ UNCHANGED <<users, signIns, nodeEnv, replitDomains, allowedEnv, now, store, win,
                   arrivals, req>>

\* handleSubmit (the Subscribe button of step 3, disabled while the mutation
\* is pending)
HandleSubmit ==
    /\ wizard.step = 3 /\ wizard.status # "pending"
    /\ wizard' = [wizard EXCEPT !.status = "pending"]
    /\ UNCHANGED <<users, signIns, nodeEnv, replitDomains, allowedEnv, now, store, win,
                   arrivals, req>>

\* subscribeMutation.onSuccess
OnSuccess ==
    /\ wizard.status = "pending"
    /\ wizard' = [wizard EXCEPT !.step = 4, !.status = "success"]
    /\ UNCHANGED <<users, signIns, nodeEnv, replitDomains, allowedEnv, now, store, win,
                   arrivals, req>>

\* subscribeMutation.onError: a toast
OnError ==
    /\ wizard.status = "pending"
    /\ wizard' = [wizard EXCEPT !.status = "error"]
    /\ UNCHANGED <<users, signIns, nodeEnv, replitDomains, allowedEnv, now, store, win,
                   arrivals, req>>

(***************************************************************************)
(* What the environment sends, and what the handlers answer.               *)
(***************************************************************************)
LoginPath == <<"api", "auth", "login">>
RegisterPath == <<"api", "auth", "register">>
ChangePasswordPath == <<"api", "auth", "change-password">>
HealthPath == <<"api", "health">>
PostsPath == <<"api", "posts">>

Ok == [throws |-> FALSE, status |-> 200, json |-> ("ok" :> "true"), err |-> NoError]
Rejected ==
    [throws |-> FALSE, status |-> 401, json |-> ("message" :> "Invalid credentials"),
     err |-> NoError]
Throws(err) == [throws |-> TRUE, status |-> 0, json |-> NoFields, err |-> err]

\* checkValidation in front of a handler, with errors to report
Invalid ==
    [throws |-> FALSE, status |-> 400,
     json |-> ("message" :> "Validation failed" @@ "errors" :> "errors.array()"),
     err |-> NoError]

\* the strings of at most n tokens of A
SeqsUpTo(A, n) == UNION {[1..k -> A] : k \in 0..n}

\* the errors the validation rules report
FieldErrors ==
    {[path |-> "email", msg |-> "Invalid email address"],
     [path |-> "password", msg |-> "Password must be between 8 and 128 characters"]}
ErrorLists == SeqsUpTo(FieldErrors, MaxErrors)

OriginTokens == {"http://", "localhost", ":5000", "app.example", ".evil"}
Origins == {Unset} \cup {EnvValue(o) : o \in SeqsUpTo(OriginTokens, MaxOriginLen)}

EnvTokens == {"app.example", ","}
EnvLists == {Unset} \cup {EnvValue(v) : v \in SeqsUpTo(EnvTokens, MaxEnvLen)}

NodeEnvs == {"production", "development"}

ErrorStatuses == {0, 400, 403, 429, 500, 503}
ErrorMessages == {"", "connection refused", "password authentication failed for user admin"}
Errors ==
    {Error(st, m, k) : st \in ErrorStatuses, m \in ErrorMessages, k \in BOOLEAN}

(***************************************************************************)
(* SpecOrigin: the first request after startup, for every environment and  *)
(* every Origin header.                                                    *)
(***************************************************************************)
InitOrigin ==
    /\ nodeEnv \in NodeEnvs
    /\ replitDomains \in {Unset, EnvValue(<<>>), EnvValue(<<"app.example">>)}
    /\ allowedEnv \in EnvLists
    /\ now = 0
    /\ store = EmptyStore
    /\ win = NoWindows
    /\ arrivals = 0
    /\ req = EmptyBag
    /\ users = <<>> /\ signIns = NoSignIns /\ wizard = FirstStep

NextOrigin ==
    \/ \E origin \in Origins, method \in {"GET", "OPTIONS"} :
          arrivals = 0
          /\ Receive("10.0.0.1", method, PostsPath, origin, "https", "json", FALSE)
    \/ \E r \in DOMAIN req : RateLimit(r)
    \/ \E r \in DOMAIN req : Handler(r, Ok)
    \/ \E r \in DOMAIN req : Finish(r)

SpecOrigin == InitOrigin /\ [][NextOrigin]_vars

(***************************************************************************)
(* SpecError: the first request after startup, for every error that a      *)
(* stage or a handler can pass on.                                         *)
(***************************************************************************)
InitError ==
    /\ nodeEnv \in NodeEnvs
    /\ replitDomains = Unset
    /\ allowedEnv = Unset
    /\ now = 0
    /\ store = EmptyStore
    /\ win = NoWindows
    /\ arrivals = 0
    /\ req = EmptyBag
    /\ users = <<>> /\ signIns = NoSignIns /\ wizard = FirstStep

NextError ==
    \/ \E origin \in {Unset, EnvValue(<<"http://", ".evil">>)}, tooLarge \in BOOLEAN :
          arrivals = 0
          /\ Receive("10.0.0.1", "POST", PostsPath, origin, "https", "json", tooLarge)
    \/ \E r \in DOMAIN req : RateLimit(r)
    \/ \E r \in DOMAIN req, outcome \in {Ok, Rejected} \cup {Throws(e) : e \in Errors} :
          Handler(r, outcome)
    \/ \E r \in DOMAIN req : Finish(r)

SpecError == InitError /\ [][NextError]_vars

(***************************************************************************)
(* SpecLogin: the login limiter, one client, requests in parallel.         *)
(***************************************************************************)
Init ==
    /\ nodeEnv = "production"
    /\ replitDomains = Unset
    /\ allowedEnv = Unset
    /\ now = 0
    /\ store = EmptyStore
    /\ win = NoWindows
    /\ arrivals = 0
    /\ req = EmptyBag
    /\ users = <<>> /\ signIns = NoSignIns /\ wizard = FirstStep

NextLogin ==
    \/ /\ arrivals < LoginArrivals
       /\ Receive("10.0.0.1", "POST", LoginPath, Unset, "https", "json", FALSE)
    \/ \E r \in DOMAIN req : RateLimit(r)
    \/ \E r \in DOMAIN req, outcome \in {Ok, Rejected} : Handler(r, outcome)
    \/ \E r \in DOMAIN req : Finish(r)
    \/ Tick(TickMs)
    \/ \E l \in Limiters, ip \in IPs : ClearExpired(l, ip)

SpecLogin == Init /\ [][NextLogin]_vars

(***************************************************************************)
(* SpecBurst: one client sends to the registration, the password-change    *)
(* and the other routes, in parallel, over several windows.  The server    *)
(* has either just started or has already counted all but two requests of  *)
(* the client's general allowance in the running window.                   *)
(***************************************************************************)
PreloadedApi == [totalHits |-> Max("api") - 2, resetTime |-> WindowMs("api")]
PreloadedWindow ==
    [received |-> Max("api") - 2, forwarded |-> Max("api") - 2,
     succeeded |-> 0, failed |-> 0]

InitBurst ==
    /\ nodeEnv = "production"
    /\ replitDomains = Unset
    /\ allowedEnv = Unset
    /\ now = 0
    /\ \E busy \in BOOLEAN :
          IF busy
          THEN /\ store = [EmptyStore EXCEPT !["api"]["10.0.0.1"] = PreloadedApi]
               /\ win = [NoWindows EXCEPT !["api"]["10.0.0.1"] = PreloadedWindow]
          ELSE /\ store = EmptyStore
               /\ win = NoWindows
    /\ arrivals = 0
    /\ req = EmptyBag
    /\ users = <<>> /\ signIns = NoSignIns /\ wizard = FirstStep

NextBurst ==
    \/ \E path \in {RegisterPath, ChangePasswordPath, PostsPath} :
          arrivals < BurstArrivals
          /\ Receive("10.0.0.1", "POST", path, Unset, "https", "json", FALSE)
    \/ \E r \in DOMAIN req : RateLimit(r)
    \/ \E r \in DOMAIN req : Handler(r, Ok)
    \/ \E r \in DOMAIN req : Finish(r)
    \/ \E d \in {TickMs, 4 * TickMs} : Tick(d)
    \/ \E l \in Limiters, ip \in IPs : ClearExpired(l, ip)

SpecBurst == InitBurst /\ [][NextBurst]_vars

(***************************************************************************)
(* SpecClients: two clients send to the limited routes in parallel.        *)
(***************************************************************************)
NextClients ==
    \/ \E ip \in IPs, path \in {LoginPath, RegisterPath, ChangePasswordPath, PostsPath} :
          arrivals < ClientArrivals
          /\ Receive(ip, "POST", path, Unset, "https", "json", FALSE)
    \/ \E r \in DOMAIN req : RateLimit(r)
    \/ \E r \in DOMAIN req, outcome \in {Ok, Rejected} : Handler(r, outcome)
    \/ \E r \in DOMAIN req : Finish(r)

SpecClients == Init /\ [][NextClients]_vars

(***************************************************************************)
(* SpecOrder: one client sends to the routes that have a limiter of their  *)
(* own, with the general allowance fresh or nearly used up.                *)
(***************************************************************************)
NextOrder ==
    \/ \E path \in {LoginPath, RegisterPath, ChangePasswordPath} :
          arrivals < OrderArrivals
          /\ Receive("10.0.0.1", "POST", path, Unset, "https", "json", FALSE)
    \/ \E r \in DOMAIN req : RateLimit(r)
    \/ \E r \in DOMAIN req, outcome \in {Ok, Rejected} : Handler(r, outcome)
    \/ \E r \in DOMAIN req : Finish(r)

SpecOrder == InitBurst /\ [][NextOrder]_vars

(***************************************************************************)
(* SpecPipeline: the first request of a client, of every kind, in both     *)
(* modes; the client has either used none of its allowances or all of one. *)
(***************************************************************************)
FullRecord(l) == [totalHits |-> Max(l), resetTime |-> WindowMs(l)]
FullWindow(l) ==
    [received |-> Max(l), forwarded |-> Max(l), succeeded |-> 0,
     failed |-> IF SkipSuccessfulRequests(l) THEN Max(l) ELSE 0]

InitPipeline ==
    /\ nodeEnv \in NodeEnvs
    /\ replitDomains = Unset
    /\ allowedEnv = Unset
    /\ now = 0
    /\ \E full \in Limiters \cup {"none"} :
          /\ store = [l \in Limiters |-> [ip \in IPs |->
                        IF l = full /\ ip = "10.0.0.1" THEN FullRecord(l) ELSE NoRecord]]
          /\ win = [l \in Limiters |-> [ip \in IPs |->
                      IF l = full /\ ip = "10.0.0.1" THEN FullWindow(l) ELSE NoWindow]]
    /\ arrivals = 0
    /\ req = EmptyBag
    /\ users = <<>> /\ signIns = NoSignIns /\ wizard = FirstStep

PipelineBodies ==
    {EmptyObject, Obj(<<"email", "bio">>, <<Str(<<"safe">>), Str(<<"on", "click=", "hello">>)>>)}

NextPipeline ==
    \/ /\ arrivals = 0
       /\ \E path \in {LoginPath, RegisterPath, ChangePasswordPath, PostsPath},
             method \in {"POST", "OPTIONS"},
             origin \in {Unset, EnvValue(<<"http://", ".evil">>)},
             proto \in {"https", "http", ""},
             ctype \in {"json", "urlencoded", "text"},
             tooLarge \in BOOLEAN,
             body \in PipelineBodies :
             ReceiveRequest(WithInput(
                 NewRequest("10.0.0.1", method, path, origin, proto, ctype, tooLarge),
                 body, EmptyObject))
    \/ \E r \in DOMAIN req : RateLimit(r)
    \/ \E r \in DOMAIN req, outcome \in {Ok, Rejected, Invalid} \cup {Throws(e) : e \in Errors} :
          Handler(r, outcome)
    \/ \E r \in DOMAIN req : Finish(r)

SpecPipeline == InitPipeline /\ [][NextPipeline]_vars

(***************************************************************************)
(* SpecSanitize: the first request after startup, for every JSON body of   *)
(* the shapes below and a query string with or without an event handler.   *)
(***************************************************************************)
SanitizerTokens ==
    {"<script>", "</script>", "java", "script:", "on", "click=", "alert(1)", "safe"}
Strings == SeqsUpTo(SanitizerTokens, MaxStringLen)

ScriptLink == Str(<<"java", "script:", "alert(1)">>)
Leaves ==
    {Str(<<"safe">>), ScriptLink, Str(<<"<script>", "alert(1)", "</script>", "hello">>),
     Number, Null}
Arrays == {Arr(a) : a \in SeqsUpTo({Str(<<"safe">>), ScriptLink, Number}, MaxArrayLen)}

Keys == {"a", "b", "__proto__"}
KeySeqs == {k \in SeqsUpTo(Keys, MaxKeys) : \A i, j \in 1..Len(k) : k[i] = k[j] => i = j}
ObjectsOver(V) == UNION {{Obj(k, v) : v \in [1..Len(k) -> V]} : k \in KeySeqs}

Flat == ObjectsOver(Leaves) \cup {Obj(<<k>>, <<a>>) : k \in Keys, a \in Arrays}
Nested == {Obj(<<"a">>, <<v>>) : v \in Flat}
Bodies == {Obj(<<"x">>, <<Str(t)>>) : t \in Strings} \cup Flat \cup Nested \cup Arrays
Queries == {EmptyObject, Obj(<<"q">>, <<Str(<<"on", "click=", "safe">>)>>)}

NextSanitize ==
    \/ /\ arrivals = 0
       /\ \E body \in Bodies, query \in Queries :
             ReceiveRequest(WithInput(
                 NewRequest("10.0.0.1", "POST", PostsPath, Unset, "https", "json", FALSE),
                 body, query))
    \/ \E r \in DOMAIN req : RateLimit(r)
    \/ \E r \in DOMAIN req : Handler(r, Ok)
    \/ \E r \in DOMAIN req : Finish(r)

SpecSanitize == Init /\ [][NextSanitize]_vars

(***************************************************************************)
(* SpecInflight: one client sends login requests in parallel, within one   *)
(* window; the handler takes its time and answers each request on its own. *)
(* At the start the client's first logins of the window, counted one after *)
(* the other by both limiters, are with their handlers.                    *)
(***************************************************************************)
\* the login request that both limiters counted as the i-th of the window
\* that began at 0, now with its handler
HeldLogin(i) ==
    LET r == Run(NewRequest("10.0.0.1", "POST", LoginPath, Unset, "https", "json", FALSE))
        a == [Visit(r, "limit") EXCEPT !.hits = <<i>>, !.resetTime = WindowMs("api"),
                                       !.fresh = (i = 1), !.counted = <<"api">>,
                                       !.li = NextLimiter(LoginPath, r.li)]
        b == [Visit(a, "limit") EXCEPT !.hits = <<i, i>>, !.resetTime = WindowMs("auth"),
                                       !.fresh = (i = 1), !.counted = <<"api", "auth">>,
                                       !.listeners = {"auth"}]
    IN  Run(CallNext(b, "limit"))

RECURSIVE HeldBag(_)
HeldBag(n) == IF n = 0 THEN EmptyBag ELSE HeldBag(n - 1) (+) One(HeldLogin(n))

InitInflight ==
    /\ nodeEnv = "production"
    /\ replitDomains = Unset
    /\ allowedEnv = Unset
    /\ now = 0
    /\ store = [l \in Limiters |-> [ip \in IPs |->
                  IF l \in {"api", "auth"} /\ ip = "10.0.0.1"
                  THEN [totalHits |-> HeldLogins, resetTime |-> WindowMs(l)]
                  ELSE NoRecord]]
    /\ win = [l \in Limiters |-> [ip \in IPs |->
                IF l \in {"api", "auth"} /\ ip = "10.0.0.1"
                THEN [received |-> HeldLogins, forwarded |-> HeldLogins,
                      succeeded |-> 0, failed |-> 0]
                ELSE NoWindow]]
    /\ arrivals = 0
    /\ req = HeldBag(HeldLogins)
    /\ users = <<>> /\ signIns = NoSignIns /\ wizard = FirstStep

NextInflight ==
    \/ /\ arrivals < InflightArrivals
       /\ ReceiveUpTo(NewRequest("10.0.0.1", "POST", LoginPath, Unset, "https", "json", FALSE),
                      LoginsInflight)
    \/ \E r \in DOMAIN req : RateLimit(r)
    \/ \E r \in DOMAIN req, outcome \in {Ok, Rejected} : Handler(r, outcome)
    \/ \E r \in DOMAIN req : Finish(r)

SpecInflight == InitInflight /\ [][NextInflight]_vars

(***************************************************************************)
(* SpecGoogle: sign-ins with Google run in parallel, against a storage     *)
(* that holds no user, a user with the address, or a user with the Google  *)
(* id.                                                                     *)
(***************************************************************************)
GoogleIds == {"g1", "g2"}
Profiles == {[id |-> g, email |-> m] : g \in GoogleIds, m \in {Absent, Present("Ann@x.io")}}

StoredUsers ==
    {<<>>,
     <<[id |-> 1, googleId |-> Absent, email |-> Present("ann@x.io"),
        authProvider |-> "local", via |-> 0]>>,
     <<[id |-> 1, googleId |-> Present("g1"), email |-> Present("ann@x.io"),
        authProvider |-> "google", via |-> 0]>>}

InitGoogle ==
    /\ nodeEnv = "production"
    /\ replitDomains = Unset
    /\ allowedEnv = Unset
    /\ now = 0
    /\ store = EmptyStore
    /\ win = NoWindows
    /\ arrivals = 0
    /\ req = EmptyBag
    /\ users \in StoredUsers
    /\ signIns = NoSignIns
    /\ wizard = FirstStep

NextGoogle ==
    \/ \E p \in SignInIds, profile \in Profiles : ByGoogleId(p, profile)
    \/ \E p \in SignInIds : ByEmail(p)
    \/ \E p \in SignInIds : LinkAccount(p)
    \/ \E p \in SignInIds, ok \in BOOLEAN : CreateNewUser(p, ok)
    \/ \E p \in SignInIds : WelcomeEmail(p)

SpecGoogle == InitGoogle /\ [][NextGoogle]_vars

(***************************************************************************)
(* SpecWizard: a visitor uses the sign-up wizard in every way the rendered *)
(* elements allow.                                                         *)
(***************************************************************************)
EmailChars == {"x", "@", ".", " "}
\* the values one keystroke can give the address input: a character more,
\* or the last one deleted
Keystrokes(email) ==
    {Append(email, c) : c \in IF Len(email) < MaxEmailLen THEN EmailChars ELSE {}}
        \cup (IF email = <<>> THEN {} ELSE {SubSeq(email, 1, Len(email) - 1)})
CategoryIds == {"ai"}

InitWizard ==
    /\ nodeEnv = "production"
    /\ replitDomains = Unset
    /\ allowedEnv = Unset
    /\ now = 0
    /\ store = EmptyStore
    /\ win = NoWindows
    /\ arrivals = 0
    /\ req = EmptyBag
    /\ users = <<>>
    /\ signIns = NoSignIns
    /\ wizard = FirstStep

NextWizard ==
    \/ \E v \in Keystrokes(wizard.data.email) : ChangeEmail(v)
    \/ HandleNext
    \/ HandleBack
    \/ \E c \in CategoryIds : ToggleCategory(c)
    \/ \E f \in FrequencyOptions : SetFrequency(f)
    \/ HandleSubmit
    \/ OnSuccess
    \/ OnError

SpecWizard == InitWizard /\ [][NextWizard]_vars

(***************************************************************************)
(* SpecValidate: requests to a route that validates its input before its   *)
(* handler, in both modes.                                                 *)
(***************************************************************************)
NextValidate ==
    \/ /\ arrivals < ValidateArrivals
       /\ \E path \in {RegisterPath, LoginPath} :
             Receive("10.0.0.1", "POST", path, Unset, "https", "json", FALSE)
    \/ \E r \in DOMAIN req : RateLimit(r)
    \/ \E r \in DOMAIN req, errs \in ErrorLists : Validate(r, errs)
    \/ \E r \in DOMAIN req, outcome \in {Ok, Rejected, Throws(Error(0, "connection refused", TRUE))} :
          r.validated /\ Handler(r, outcome)
    \/ \E r \in DOMAIN req : Finish(r)

SpecValidate == InitError /\ [][NextValidate]_vars

(***************************************************************************)
(* What has happened to a request.                                         *)
(***************************************************************************)
Ran(r, stage) == \E i \in 1..Len(r.trail) : r.trail[i] = stage

\* the error handler ran right after the stage: the stage passed on an error
FailedIn(r, stage) ==
    \E i \in 1..(Len(r.trail) - 1) : r.trail[i] = stage /\ r.trail[i + 1] = "error"

\* origin validation: denied (an error) or allowed (the CORS headers are set)
Denied(r) == FailedIn(r, "cors")
Allowed(r) == Ran(r, "cors") /\ ~FailedIn(r, "cors")

Answered(r) == r.pc = "sent"

\* how often the middleware of a stage ran on the request
Times(r, stage) == Cardinality({i \in 1..Len(r.trail) : r.trail[i] = stage})

\* every run of stage a on the request came before every run of stage b
Before(r, a, b) ==
    \A i, j \in 1..Len(r.trail) : (r.trail[i] = a /\ r.trail[j] = b) => i < j

\* the request is with its handler, or was
AtHandler(r) == r.pc = "handler" \/ Ran(r, "handler")

\* a body that express.json or express.urlencoded reads and finds too large
Oversized(r) == r.tooLarge /\ r.ctype \in {"json", "urlencoded"}

\* the limiter that counted the request last, and the count it returned
LastLimiter(r) == r.counted[Len(r.counted)]
LastHits(r) == r.hits[Len(r.hits)]

\* a limiter answered the request itself: 429 and its message as text
Limited(r) == Answered(r) /\ r.status = 429 /\ r.kind = "text"

\* the request r is at limiter l and takes its step
AtLimiter(r, l) ==
    /\ r \in DOMAIN req /\ r.pc = "limit" /\ LimiterOrder[r.li].name = l
    /\ CopiesIn(r, req') < CopiesIn(r, req)

\* the request q is what the step made of the request it acted on
Outcome(q) == CopiesIn(q, req') > CopiesIn(q, req)

(***************************************************************************)
(* C1.  In production every response of the error handler has a body with  *)
(* the one field message, holding "Too many requests, please try again     *)
(* later." for an error of status 429 and "An error occurred. Please try   *)
(* again later." for any other; the body holds neither the error's message *)
(* nor a stack.                                                            *)
(***************************************************************************)
C1_ProductionErrorBody ==
    \A r \in DOMAIN req :
        (nodeEnv = "production" /\ Answered(r) /\ Ran(r, "error")) =>
            /\ r.kind = "json"
            /\ DOMAIN r.json = {"message"}
            /\ r.json["message"] =
                   (IF r.err.status = 429 THEN TooManyMessage ELSE GenericMessage)
            /\ r.json["message"] # r.err.message
            /\ \A f \in DOMAIN r.json : r.json[f] # StackText

\* a handler's error with a message and a stack has been answered in production
C1_Witness ==
    \E r \in DOMAIN req :
        /\ nodeEnv = "production" /\ Answered(r) /\ Ran(r, "error")
        /\ r.ranHandler /\ r.err.stack
        /\ r.err.message = "password authentication failed for user admin"
        /\ r.err.status = 503

(***************************************************************************)
(* C2.  In production a request whose Origin header is not empty and holds *)
(* no entry of the allowlist as a substring is denied, and a request whose *)
(* Origin is an entry is allowed with Access-Control-Allow-Origin set to   *)
(* that origin.                                                            *)
(***************************************************************************)
IsEntry(o) ==
    LET list == AllowedOrigins(replitDomains, allowedEnv)
    IN  \E i \in 1..Len(list) : list[i] = o

SomeEntryInside(o) == SomeIncluded(AllowedOrigins(replitDomains, allowedEnv), o)

C2_EntriesAllowedOthersDenied ==
    \A r \in DOMAIN req :
        (nodeEnv = "production" /\ Ran(r, "cors") /\ r.origin.set) =>
            /\ (r.origin.val # <<>> /\ ~SomeEntryInside(r.origin.val)) => Denied(r)
            /\ IsEntry(r.origin.val) =>
                  /\ Allowed(r)
                  /\ r.acao = r.origin
                  /\ "Access-Control-Allow-Origin" \in r.headers

\* C2 as first stated: an Origin that is no entry is denied
C2_AsStated ==
    \A r \in DOMAIN req :
        (nodeEnv = "production" /\ Ran(r, "cors") /\ r.origin.set) =>
            /\ ~IsEntry(r.origin.val) => Denied(r)
            /\ IsEntry(r.origin.val) => (Allowed(r) /\ r.acao = r.origin)

\* a request from an origin that is an entry has been allowed
C2_Witness ==
    \E r \in DOMAIN req :
        /\ nodeEnv = "production" /\ allowedEnv = EnvValue(<<"app.example">>)
        /\ r.origin = EnvValue(<<"app.example">>)
        /\ Allowed(r) /\ r.pc = "handler"

(***************************************************************************)
(* C3.  In production a request with a non-empty Origin header is allowed  *)
(* if and only if some allowlist entry is a substring of the origin; a     *)
(* denied request gets the error handler's response and no handler runs.   *)
(***************************************************************************)
C3_SubstringRule ==
    \A r \in DOMAIN req :
        (nodeEnv = "production" /\ Ran(r, "cors") /\ r.origin.set /\ r.origin.val # <<>>) =>
            /\ Allowed(r) <=> SomeEntryInside(r.origin.val)
            /\ Denied(r) =>
                  /\ r.err = Error(0, "Not allowed by CORS", TRUE)
                  /\ Answered(r) /\ ~r.ranHandler /\ ~Ran(r, "handler")
                  /\ r.responses = 1
                  /\ r.status = 500 /\ r.kind = "json"
                  /\ r.json = ("message" :> GenericMessage)

\* C3 as first stated, for every request that has an Origin header
C3_AsStated ==
    \A r \in DOMAIN req :
        (nodeEnv = "production" /\ Ran(r, "cors") /\ r.origin.set) =>
            (Allowed(r) <=> SomeEntryInside(r.origin.val))

\* a request from an origin that holds no entry has been denied and answered
C3_Witness ==
    \E r \in DOMAIN req :
        /\ nodeEnv = "production" /\ allowedEnv = EnvValue(<<"app.example">>)
        /\ r.origin = EnvValue(<<"http://", ".evil">>)
        /\ Denied(r) /\ Answered(r)

(***************************************************************************)
(* C4.  A request without an Origin header is allowed in every mode,       *)
(* whatever the allowlist holds.                                           *)
(***************************************************************************)
C4_NoOriginAllowed ==
    \A r \in DOMAIN req :
        (Ran(r, "cors") /\ ~r.origin.set) => Allowed(r)

\* such a request has passed origin validation in production
C4_Witness ==
    \E r \in DOMAIN req :
        /\ nodeEnv = "production" /\ allowedEnv = EnvValue(<<"app.example">>)
        /\ ~r.origin.set /\ Allowed(r) /\ r.pc = "handler"

(***************************************************************************)
(* C5.  Outside production no request is denied by origin validation,      *)
(* whatever its Origin and whatever the allowlist.                         *)
(***************************************************************************)
C5_DevelopmentAllowsAll ==
    \A r \in DOMAIN req :
        (nodeEnv # "production" /\ Ran(r, "cors")) => Allowed(r)

\* an origin without localhost and without an entry has been allowed
C5_Witness ==
    \E r \in DOMAIN req :
        /\ nodeEnv # "production" /\ allowedEnv = EnvValue(<<"app.example">>)
        /\ r.origin = EnvValue(<<"http://", ".evil">>)
        /\ Allowed(r) /\ r.pc = "handler"

(***************************************************************************)
(* C6.  Within one window of a client the registration limiter passes on   *)
(* at most 3 requests, the password-change limiter at most 5 and the       *)
(* general limiter at most 1000, however the requests interleave; a        *)
(* request that one of them counted beyond that number is answered with    *)
(* 429 and reaches neither the sanitizer nor a handler.                    *)
(***************************************************************************)
C6_AtMostMaxForwarded ==
    /\ \A ip \in IPs :
          /\ win["register"][ip].forwarded <= 3
          /\ win["passwordChange"][ip].forwarded <= 5
          /\ win["api"][ip].forwarded <= 1000
    /\ \A r \in DOMAIN req :
          (/\ r.counted # <<>>
           /\ \/ LastLimiter(r) = "register" /\ LastHits(r) > 3
              \/ LastLimiter(r) = "passwordChange" /\ LastHits(r) > 5
              \/ LastLimiter(r) = "api" /\ LastHits(r) > 1000) =>
              /\ Limited(r)
              /\ r.responses = 1
              /\ ~r.ranHandler /\ ~Ran(r, "handler") /\ ~Ran(r, "sanitize")

\* the fourth registration of a window is rejected while the third, which
\* arrived in parallel, is still with its handler
C6_Witness ==
    \E r, q \in DOMAIN req :
        /\ r.path = RegisterPath /\ r.counted = <<"api", "register">>
        /\ LastHits(r) = 4
        /\ Limited(r) /\ r.text = LimitMessage("register")
        /\ q.path = RegisterPath /\ q.pc = "handler" /\ q.resetTime = r.resetTime
        /\ win["register"][r.ip].forwarded = 3

(***************************************************************************)
(* C7.  As stated: the login limiter rejects the sixth login request of a  *)
(* window when the five before it were answered as failures, and admits it *)
(* when at least one of the five before it was answered successfully.      *)
(***************************************************************************)
C7_SixthLogin ==
    [][\A r \in DOMAIN req, q \in DOMAIN req' :
          LET w == win["auth"][r.ip] IN
          (/\ AtLimiter(r, "auth") /\ Outcome(q)
           /\ ~Expired(store["auth"][r.ip], now)
           /\ w.received = 5) =>
              /\ w.failed = 5 => Limited(q)
              /\ (w.succeeded >= 1 /\ w.failed + w.succeeded = 5) => ~Limited(q)]_vars

(***************************************************************************)
(* C8.  A limiter that counts a request after the window of the client's   *)
(* record is over starts a new window with it: the request is counted as   *)
(* the first and admitted, whatever the count of the window before.  A     *)
(* window lasts 60 minutes for registration and 15 minutes for the other   *)
(* classes, from the time the limiter started it.                          *)
(***************************************************************************)
C8_WindowReset ==
    /\ \A r \in DOMAIN req :
          (r.counted # <<>> /\ r.fresh) => (LastHits(r) = 1 /\ ~Limited(r))
    /\ \A l \in Limiters, ip \in IPs :
          store[l][ip] # NoRecord =>
              LET start == store[l][ip].resetTime
                             - (IF l = "register" THEN 60 ELSE 15) * 60 * 1000
              IN  0 <= start /\ start <= now

\* a registration rejected in one window is still unanswered to the network
\* when the next window's first registration is admitted
C8_Witness ==
    \E r, q \in DOMAIN req :
        /\ r.path = RegisterPath /\ Limited(r) /\ r.counted = <<"api", "register">>
        /\ q.path = RegisterPath /\ q.fresh /\ q.counted = <<"api", "register">>
        /\ q.pc = "handler" /\ q.resetTime > r.resetTime
        /\ store["register"][q.ip].totalHits = 1

(***************************************************************************)
(* C9.  A step changes the record of a client at a limiter only if a       *)
(* request of that client takes the step and the limiter is the general    *)
(* one or the one of the request's route.                                  *)
(***************************************************************************)
C9_CountersIndependent ==
    [][\A l \in Limiters, ip \in IPs :
          store'[l][ip] # store[l][ip] =>
              \E r \in DOMAIN req :
                  /\ CopiesIn(r, req') < CopiesIn(r, req)
                  /\ r.ip = ip
                  /\ \/ l = "api"
                     \/ l = "auth" /\ r.path = LoginPath
                     \/ l = "register" /\ r.path = RegisterPath
                     \/ l = "passwordChange" /\ r.path = ChangePasswordPath]_vars

\* each client has been counted at a limiter where the other has no record
C9_Witness ==
    /\ store["auth"]["10.0.0.1"].totalHits >= 1
    /\ store["auth"]["10.0.0.2"] = NoRecord
    /\ store["register"]["10.0.0.2"].totalHits >= 1
    /\ store["register"]["10.0.0.1"] = NoRecord
    /\ store["api"]["10.0.0.1"].totalHits = 1
    /\ store["api"]["10.0.0.2"].totalHits = 1

(***************************************************************************)
(* C10.  A request to the login, registration or password-change route is  *)
(* counted by the general limiter first and by the limiter of its route    *)
(* second; it reaches the handler only when both counted it within their   *)
(* limit, and the limiter of the route does not count a request that the   *)
(* general limiter rejected.                                               *)
(***************************************************************************)
C10_GeneralThenRoute ==
    \A r \in DOMAIN req :
        LET route == CASE r.path = LoginPath -> "auth"
                       [] r.path = RegisterPath -> "register"
                       [] r.path = ChangePasswordPath -> "passwordChange"
                       [] OTHER -> "none"
            max   == IF route = "register" THEN 3 ELSE 5
        IN
        route # "none" =>
            /\ r.counted \in {<<>>, <<"api">>, <<"api", route>>}
            /\ (r.pc = "handler" \/ Ran(r, "handler")) =>
                  /\ r.counted = <<"api", route>>
                  /\ r.hits[1] <= 1000 /\ r.hits[2] <= max
            /\ (r.hits # <<>> /\ r.hits[1] > 1000) =>
                  (r.counted = <<"api">> /\ Limited(r))

\* the general limiter has rejected a login request, and the login limiter
\* has not counted it
C10_Witness ==
    \E r \in DOMAIN req :
        /\ r.path = LoginPath /\ r.hits = <<1001>> /\ r.counted = <<"api">>
        /\ Limited(r) /\ r.text = LimitMessage("api")
        /\ store["auth"][r.ip] = NoRecord

(***************************************************************************)
(* C11.  As stated: after the sanitizer, body, query and params are what   *)
(* came in with every string leaf, at any depth, as a value of a mapping   *)
(* or as an element of a sequence, rewritten by the three removals in      *)
(* order (script spans, javascript:, on<word>=), and nothing else changed. *)
(***************************************************************************)
RECURSIVE EveryLeafSanitized(_)
EveryLeafSanitized(v) ==
    CASE v.type = "string" -> Str(SanitizeString(v.val))
      [] v.type = "array"  -> Arr([i \in 1..Len(v.items) |-> EveryLeafSanitized(v.items[i])])
      [] v.type = "object" ->
             Obj(v.keys, [i \in 1..Len(v.vals) |-> EveryLeafSanitized(v.vals[i])])
      [] OTHER -> v

C11_EveryStringLeaf ==
    \A r \in DOMAIN req :
        r.sanitized =>
            /\ r.body = EveryLeafSanitized(r.received.body)
            /\ r.query = EveryLeafSanitized(r.received.query)
            /\ r.params = EveryLeafSanitized(r.received.params)

(***************************************************************************)
(* C12.  As stated: sanitizing what the sanitizer has produced changes     *)
(* nothing.                                                                *)
(***************************************************************************)
C12_Idempotent ==
    \A r \in DOMAIN req :
        r.sanitized =>
            /\ SanitizeObject(r.body) = r.body
            /\ SanitizeObject(r.query) = r.query
            /\ SanitizeObject(r.params) = r.params

(***************************************************************************)
(* C13.  As stated: after the sanitizer, body, query and params have the   *)
(* keys they came in with, in the same order, the same nesting of objects  *)
(* and arrays with the same lengths, and the same leaves that are no       *)
(* strings.                                                                *)
(***************************************************************************)
RECURSIVE SameStructure(_, _)
SameStructure(a, b) ==
    /\ a.type = b.type
    /\ CASE a.type = "string" -> TRUE
         [] a.type = "array"  ->
                /\ Len(a.items) = Len(b.items)
                /\ \A i \in 1..Len(a.items) : SameStructure(a.items[i], b.items[i])
         [] a.type = "object" ->
                /\ a.keys = b.keys
                /\ \A i \in 1..Len(a.vals) : SameStructure(a.vals[i], b.vals[i])
         [] OTHER -> a = b

C13_StructurePreserved ==
    \A r \in DOMAIN req :
        r.sanitized =>
            /\ SameStructure(r.received.body, r.body)
            /\ SameStructure(r.received.query, r.query)
            /\ SameStructure(r.received.params, r.params)

C15_SizeLimitFirst ==
    /\ [](\A r \in DOMAIN req :
             Oversized(r) =>
                 /\ r.trail = <<"size", "error">>
                 /\ Answered(r) /\ r.status = 413 /\ r.responses = 1
                 /\ r.counted = <<>> /\ r.listeners = {} /\ ~r.ranHandler)
    /\ [][(\E r \in DOMAIN req \cup DOMAIN req' :
              Oversized(r) /\ CopiesIn(r, req') # CopiesIn(r, req)) => store' = store]_vars

\* an oversized request from a foreign origin, of a client that has used up
\* its general allowance, has been answered with 413 in production
C15_Witness ==
    \E r \in DOMAIN req :
        /\ Oversized(r) /\ Answered(r) /\ r.status = 413
        /\ nodeEnv = "production" /\ r.origin = EnvValue(<<"http://", ".evil">>)
        /\ store["api"][r.ip] = FullRecord("api")

(***************************************************************************)
(* C16.  As stated: every response carries the five protective headers.    *)
(***************************************************************************)
C16_EveryResponseProtected ==
    \A r \in DOMAIN req : Answered(r) => ProtectiveHeaders \subseteq r.headers

(***************************************************************************)
(* C17.  As stated: every response to a request that passed origin         *)
(* validation carries the five protective headers, and every request that  *)
(* the header stage ran on went on to the next stage.                      *)
(***************************************************************************)
C17_ProtectedAfterOrigin ==
    \A r \in DOMAIN req :
        /\ (Allowed(r) /\ Answered(r)) => ProtectiveHeaders \subseteq r.headers
        /\ Ran(r, "helmet") => Ran(r, "redirect")

(***************************************************************************)
(* C18.  As stated: every request that is rejected or fails is answered    *)
(* with a JSON body that has a message field.                              *)
(***************************************************************************)
C18_StructuredErrors ==
    \A r \in DOMAIN req :
        (Answered(r) /\ r.status >= 400) =>
            (r.kind = "json" /\ "message" \in DOMAIN r.json)

(***************************************************************************)
(* C19.  The error handler answers every error passed to it with one       *)
(* response and passes nothing on: it runs once, nothing runs after it,    *)
(* and the request has exactly one response.                               *)
(***************************************************************************)
C19_ErrorHandlerTerminal ==
    \A r \in DOMAIN req :
        /\ r.err.set => Ran(r, "error")
        /\ Ran(r, "error") =>
              /\ Times(r, "error") = 1
              /\ r.trail[Len(r.trail)] = "error"
              /\ Answered(r) /\ r.responses = 1 /\ r.kind = "json"
        /\ r.responses <= 1

\* an error thrown by a handler has been answered
C19_Witness ==
    \E r \in DOMAIN req :
        /\ r.ranHandler /\ r.err.set /\ r.err.status = 0
        /\ Ran(r, "error") /\ Answered(r) /\ r.responses = 1

(***************************************************************************)
(* C20.  In both modes the status of the error handler's response is the   *)
(* error's own status, 500 when it has none.  Outside production the body  *)
(* holds the error's message, "Internal server error" when the error has   *)
(* no message, and the error's stack when it has one; in production it     *)
(* holds a fixed message and no stack.                                     *)
(***************************************************************************)
C20_StatusAndDetail ==
    \A r \in DOMAIN req :
        (Answered(r) /\ Ran(r, "error")) =>
            /\ r.status = (IF r.err.status = 0 THEN 500 ELSE r.err.status)
            /\ nodeEnv # "production" =>
                  /\ r.json["message"] = (IF r.err.message = "" THEN "Internal server error"
                                                                 ELSE r.err.message)
                  /\ ("stack" \in DOMAIN r.json) <=> r.err.stack
                  /\ r.err.stack => r.json["stack"] = StackText
            /\ nodeEnv = "production" =>
                  /\ r.json["message"] \in {GenericMessage, TooManyMessage}
                  /\ "stack" \notin DOMAIN r.json

\* C20 as first stated: outside production the body holds the error's own message
C20_AsStated ==
    \A r \in DOMAIN req :
        (Answered(r) /\ Ran(r, "error") /\ nodeEnv # "production") =>
            r.json["message"] = r.err.message

\* an error without status that a handler threw has been answered outside
\* production with 500, its message and its stack
C20_Witness ==
    \E r \in DOMAIN req :
        /\ nodeEnv = "development" /\ r.ranHandler /\ Answered(r) /\ Ran(r, "error")
        /\ r.err = Error(0, "connection refused", TRUE)
        /\ r.status = 500
        /\ r.json = ("message" :> "connection refused" @@ "stack" :> StackText)

(***************************************************************************)
(* C21.  When the validation result of a request holds errors,             *)
(* checkValidation answers it with 400, the message "Validation failed"    *)
(* and the errors as they are, and the handler does not run; when it holds *)
(* none, checkValidation passes the request on and sends nothing, so any   *)
(* response comes from the handler or from the error handler.              *)
(***************************************************************************)
C21_CheckValidation ==
    \A r \in DOMAIN req :
        Ran(r, "checkValidation") =>
            /\ Times(r, "checkValidation") = 1
            /\ r.errors # <<>> =>
                  /\ Answered(r) /\ r.responses = 1
                  /\ r.status = 400 /\ r.kind = "json"
                  /\ DOMAIN r.json = {"message", "errors"}
                  /\ r.json["message"] = "Validation failed"
                  /\ r.errorsSent = r.errors
                  /\ ~r.validated /\ ~r.ranHandler /\ ~Ran(r, "handler")
            /\ r.errors = <<>> =>
                  /\ r.validated /\ r.errorsSent = <<>>
                  /\ r.pc = "handler" => r.responses = 0
                  /\ r.responses > 0 => Ran(r, "handler")

\* a request with two field errors has been answered with both
C21_Witness ==
    \E r \in DOMAIN req :
        /\ Ran(r, "checkValidation") /\ Len(r.errors) = 2 /\ r.errors[1] # r.errors[2]
        /\ Answered(r) /\ r.status = 400 /\ r.errorsSent = r.errors

(***************************************************************************)
(* C22.  httpsRedirect runs on the requests that the body parsers and      *)
(* origin validation passed on and that are no preflight.  In production   *)
(* it answers such a request whose x-forwarded-proto is not "https" (or is *)
(* missing) with 301 to https://<host><url>, and no limiter, sanitizer or  *)
(* handler runs; it passes a request with "https" on without a response.   *)
(* Outside production no request is redirected.                            *)
(***************************************************************************)
C22_HttpsRedirect ==
    \A r \in DOMAIN req :
        /\ Ran(r, "redirect") <=> ~(Oversized(r) \/ Denied(r) \/ r.method = "OPTIONS")
        /\ (Ran(r, "redirect") /\ nodeEnv = "production" /\ r.proto # "https") =>
              /\ Answered(r) /\ r.status = 301 /\ r.responses = 1
              /\ r.location = <<"https://", r.host>> \o r.path
              /\ r.trail[Len(r.trail)] = "redirect"
              /\ r.counted = <<>> /\ ~r.sanitized /\ ~r.ranHandler
              /\ ~Ran(r, "limit") /\ ~Ran(r, "sanitize") /\ ~Ran(r, "handler")
        /\ (Ran(r, "redirect") /\ nodeEnv = "production" /\ r.proto = "https") =>
              /\ r.status # 301 /\ r.location = <<>>
              /\ ~(Answered(r) /\ r.trail[Len(r.trail)] = "redirect")
              /\ r.pc = "limit" \/ Ran(r, "limit")
        /\ nodeEnv # "production" =>
              /\ r.status # 301 /\ r.location = <<>>
              /\ Ran(r, "redirect") =>
                    /\ ~(Answered(r) /\ r.trail[Len(r.trail)] = "redirect")
                    /\ r.pc = "limit" \/ Ran(r, "limit")

\* C22 as first stated: in production every request whose x-forwarded-proto is
\* not "https" is answered with 301
C22_AsStated ==
    \A r \in DOMAIN req :
        (nodeEnv = "production" /\ r.proto # "https") => (Answered(r) /\ r.status = 301)

\* a login request without x-forwarded-proto has been redirected in
\* production, and the client's login allowance, used up, is as it was
C22_Witness ==
    \E r \in DOMAIN req :
        /\ nodeEnv = "production" /\ r.proto = "" /\ r.path = LoginPath
        /\ Answered(r) /\ r.status = 301
        /\ r.location = <<"https://", "ledger.example", "api", "auth", "login">>
        /\ store["auth"][r.ip] = FullRecord("auth")

(***************************************************************************)
(* C23.  A login request that the login limiter admitted counts toward the *)
(* limit while its response is open: the count of the client is at least   *)
(* the number of such requests, and with five of them open the limiter     *)
(* rejects the next login request, whatever becomes of the five later.     *)
(* When fewer than five of the login requests of the window are left after *)
(* taking off those answered successfully, the next one is admitted.       *)
(***************************************************************************)
\* the login requests the login limiter admitted and whose response is not
\* complete
PendingLogins ==
    LET open == {r \in DOMAIN req : r.counted = <<"api", "auth">> /\ ~Limited(r)}
    IN  [r \in open |-> req[r]]

RECURSIVE StringLeaves(_)
StringLeaves(v) ==
    CASE v.type = "string" -> {v.val}
      [] v.type = "array"  -> UNION {StringLeaves(v.items[i]) : i \in 1..Len(v.items)}
      [] v.type = "object" -> UNION {StringLeaves(v.vals[i]) : i \in 1..Len(v.vals)}
      [] OTHER -> {}

HasPattern(s) ==
    \/ \E i \in 1..(Len(s) - 1) : s[i] = "java" /\ s[i + 1] = "script:"
    \/ \E i, j \in 1..Len(s) : i < j /\ s[i] = "<script>" /\ s[j] = "</script>"
    \/ \E i, j \in 1..Len(s) :
          /\ i < j /\ s[i] = "on" /\ s[j] = "click="
          /\ \A k \in (i + 1)..(j - 1) : s[k] \in WordTokens

C24_NoPatternLeft ==
    \A r \in DOMAIN req :
        r.sanitized =>
            \A s \in StringLeaves(r.body) \cup StringLeaves(r.query) \cup StringLeaves(r.params) :
                ~HasPattern(s)

(***************************************************************************)
(* C25.  A request with a body over the limit, from a denied origin, or    *)
(* redirected to HTTPS is answered before any limiter runs: no limiter     *)
(* counts it or listens for its response, and no step of it changes a      *)
(* record of any limiter.  A request that the general limiter rejects is   *)
(* counted by the general limiter only: the step leaves the records of the *)
(* login, registration and password-change limiters as they are, and so    *)
(* does the end of its response.                                           *)
(***************************************************************************)
AnsweredEarly(r) == Oversized(r) \/ Denied(r) \/ r.status = 301

C25_EarlyAnswersCountNothing ==
    /\ [](\A r \in DOMAIN req :
             /\ AnsweredEarly(r) =>
                   /\ Answered(r) /\ ~Ran(r, "limit")
                   /\ r.counted = <<>> /\ r.hits = <<>> /\ r.listeners = {}
             /\ (r.hits # <<>> /\ r.hits[1] > 1000) =>
                   /\ Limited(r) /\ r.counted = <<"api">> /\ r.listeners = {})
    /\ [][\A r \in DOMAIN req \cup DOMAIN req' :
             (AnsweredEarly(r) /\ CopiesIn(r, req') # CopiesIn(r, req)) =>
                 store' = store]_vars
    /\ [][\A r \in DOMAIN req, q \in DOMAIN req' :
             (AtLimiter(r, "api") /\ Outcome(q) /\ Limited(q)) =>
                 \A l \in {"auth", "register", "passwordChange"} : store'[l] = store[l]]_vars
    /\ [][\A r \in DOMAIN req :
             (Limited(r) /\ r.counted = <<"api">> /\ CopiesIn(r, req') < CopiesIn(r, req)) =>
                 store' = store]_vars

\* a plain-HTTP registration has been redirected with the client's
\* registration allowance used up, the record as it was
C25_Witness ==
    \E r \in DOMAIN req :
        /\ nodeEnv = "production" /\ r.proto = "http" /\ r.path = RegisterPath
        /\ Answered(r) /\ r.status = 301 /\ r.hits = <<>>
        /\ store["register"][r.ip] = FullRecord("register")
        /\ store["api"][r.ip] = NoRecord

(***************************************************************************)
(* C26.  As stated: at every moment the count of a client at the login     *)
(* limiter is the number of login requests the limiter received in the     *)
(* window of the record minus the number of those that were answered       *)
(* successfully, and it is never negative.                                 *)
(***************************************************************************)
C26_CountOfCurrentWindow ==
    \A ip \in IPs :
        LET rec == store["auth"][ip]
            w   == win["auth"][ip]
        IN  /\ rec.totalHits >= 0
            /\ rec # NoRecord => rec.totalHits = w.received - w.succeeded

(***************************************************************************)
(* C27.  A limiter that counts a request inside the window of the client's *)
(* record adds one to the count and leaves the end of the window where it  *)
(* is, also when it rejects the request.  The first request it counts at   *)
(* or after the end of the window begins a new window and is admitted,     *)
(* however many requests it rejected in the window before.                 *)
(***************************************************************************)
C27_FixedWindows ==
    [][\A l \in Limiters, r \in DOMAIN req, q \in DOMAIN req' :
          LET old == store[l][r.ip]
              new == store'[l][r.ip]
          IN  (AtLimiter(r, l) /\ Outcome(q) /\ ~Skip(l, RelPath(LimiterOrder[r.li].mount, r.path))) =>
                  /\ (old # NoRecord /\ old.resetTime > now) =>
                        /\ new.resetTime = old.resetTime
                        /\ new.totalHits = old.totalHits + 1
                        /\ Limited(q) <=> old.totalHits >= Max(l)
                  /\ (old # NoRecord /\ old.resetTime <= now) =>
                        /\ new.resetTime = now + WindowMs(l)
                        /\ new.totalHits = 1
                        /\ ~Limited(q)]_vars

\* two registrations were rejected in the first hour; the first registration
\* after the hour is admitted while the second rejection is still unanswered
\* to the network
C27_Witness ==
    \E r, q \in DOMAIN req :
        /\ r.path = RegisterPath /\ Limited(r) /\ r.counted = <<"api", "register">>
        /\ LastHits(r) = 5 /\ r.resetTime = WindowMs("register")
        /\ q.path = RegisterPath /\ q.counted = <<"api", "register">> /\ LastHits(q) = 1
        /\ q.pc = "handler" /\ q.resetTime = 2 * WindowMs("register")
        /\ now = WindowMs("register")

(***************************************************************************)
(* C28.  The allowlist holds no empty string, whatever REPLIT_DOMAINS and  *)
(* ALLOWED_ORIGINS are (unset, empty, or with empty items between commas). *)
(* When neither variable holds a non-empty item the allowlist is the two    *)
(* localhost entries, and in production a request with a non-empty Origin  *)
(* is then allowed exactly when the origin contains one of them.           *)
(***************************************************************************)
C28_NoEmptyEntry ==
    LET list == AllowedOrigins(replitDomains, allowedEnv)
        bare == /\ \A i \in 1..Len(replitDomains.val) : replitDomains.val[i] = ","
                /\ \A i \in 1..Len(allowedEnv.val) : allowedEnv.val[i] = ","
    IN  /\ \A i \in 1..Len(list) : list[i] # <<>>
        /\ bare => list = <<LOCALHOST_5000, LOCALHOST_5173>>
        /\ \A r \in DOMAIN req :
              (/\ nodeEnv = "production" /\ bare
               /\ Ran(r, "cors") /\ r.origin.set /\ r.origin.val # <<>>) =>
                  (Allowed(r) <=> \/ Includes(r.origin.val, LOCALHOST_5000)
                                  \/ Includes(r.origin.val, LOCALHOST_5173))

\* C28 as first stated: with both variables unset, every request with an
\* Origin header is allowed exactly when the origin contains a localhost entry
C28_AsStated ==
    \A r \in DOMAIN req :
        (/\ nodeEnv = "production" /\ replitDomains = Unset /\ allowedEnv = Unset
         /\ Ran(r, "cors") /\ r.origin.set) =>
            (Allowed(r) <=> \/ Includes(r.origin.val, LOCALHOST_5000)
                            \/ Includes(r.origin.val, LOCALHOST_5173))

\* with REPLIT_DOMAINS empty and ALLOWED_ORIGINS two commas, a foreign origin
\* has been denied in production
C28_Witness ==
    \E r \in DOMAIN req :
        /\ nodeEnv = "production"
        /\ replitDomains = EnvValue(<<>>) /\ allowedEnv = EnvValue(<<",", ",">>)
        /\ r.origin = EnvValue(<<"http://", "app.example">>)
        /\ Denied(r) /\ Answered(r)

(***************************************************************************)
(* C29: a Google sign-in creates a user only when no user exists with the  *)
(* profile's Google id and none with its (lower-cased) email, and creates  *)
(* at most one user; of two concurrent sign-ins with the same new Google   *)
(* profile at most one creates a user.                                     *)
(***************************************************************************)
CreatesOnlyWhenNoneExists ==
    Len(users') > Len(users) =>
        /\ Len(users') = Len(users) + 1
        /\ LET u == users'[Len(users')] IN
           \A i \in 1..Len(users) :
               /\ users[i].googleId # u.googleId
               /\ u.email.set => users[i].email # u.email

OneUserPerProfile ==
    /\ \A p \in SignInIds : signIns[p].created <= 1
    /\ \A p, q \in SignInIds :
           p # q /\ signIns[p].pc # "idle" /\ signIns[p].profile = signIns[q].profile
               => signIns[p].created + signIns[q].created <= 1

C29_OneUserPerGoogleProfile == []OneUserPerProfile /\ [][CreatesOnlyWhenNoneExists]_vars

(***************************************************************************)
(* C30: in the sign-up wizard the step is always in 1..4; step 2 or 3 is   *)
(* entered from step 1 only with an address that passed validateEmail, and *)
(* the address shown on steps 2 and 3 is a valid one; step 4 is entered    *)
(* only by the success of a pending subscription and is never left; the    *)
(* failure of a subscription leaves the wizard at step 3 with the entered  *)
(* data unchanged.                                                         *)
(***************************************************************************)
StepInRange ==
    /\ wizard.step \in 1..4
    /\ wizard.step \in {2, 3} => ValidateEmail(wizard.data.email) = ""

ValidatedBeforeStepTwo ==
    wizard.step = 1 /\ wizard'.step \in {2, 3}
        => /\ wizard'.step = 2
           /\ ValidateEmail(wizard.data.email) = ""
           /\ wizard'.data = wizard.data

StepFourBySuccess ==
    /\ wizard.step # 4 /\ wizard'.step = 4
           => wizard.status = "pending" /\ wizard'.status = "success"
    /\ wizard.step = 4 => wizard' = wizard

FailureLeavesStepThree ==
    wizard.status = "pending" /\ wizard'.status = "error"
        => wizard'.step = 3 /\ wizard'.data = wizard.data

C30_WizardSteps ==
    /\ []StepInRange
    /\ [][ValidatedBeforeStepTwo /\ StepFourBySuccess /\ FailureLeavesStepThree]_vars

====
